---- MODULE Spec2Model ----
(***************************************************************************)
(* Lineup optimisation of core/data_utils.py: get_optimal_lineup,          *)
(* get_all_optimal_lineups, the two definitions of                         *)
(* get_league_optimized_lineups and the league table of                    *)
(* core/visuals_utils.py (display_league_optimized_lineups).               *)
(*                                                                         *)
(* A DataFrame is a sequence of rows; every row carries its index label    *)
(* (idx), as a pandas frame does, so that a filtered or sorted frame still *)
(* names the rows of the frame it was cut from.                            *)
(*                                                                         *)
(* handler is the running function of core/error_handler.py                *)
(* (retry_on_failure, validate_dataframe, safe_operation), if any.         *)
(***************************************************************************)
EXTENDS Integers, Sequences, FiniteSets, TLC

VARIABLES df, sortKind, call, optimal_result, season, league, table, handler

vars == <<df, sortKind, call, optimal_result, season, league, table, handler>>

----------------------------------------------------------------------------
(* Bounds of the input data.                                               *)

SquadGK == 2
SquadDEF == 5
SquadMID == 5
SquadFWD == 3
MaxSquad == 12
LowPoints == 1
HighPoints == 4
MaxGameweek == 2
MaxBlocks == 2
MaxRetries == 3
MaxDelay == 2
MaxRows == 2

(* Program constants.                                                      *)

MinGK == 1
MinDEF == 3
MinMID == 3
MinFWD == 1
MaxGKs == 1
MaxDEF == 5
MaxMID == 5
MaxFWD == 3
FillCount == 3
LineupSize == 11
StartingSlots == 11
NoGameweek == 0

Positions == <<"GK", "DEF", "MID", "FWD">>

(* The managers' team names, in alphabetical order.                        *)
Teams == <<"A", "B">>

----------------------------------------------------------------------------
(* Sequence helpers.                                                       *)

RECURSIVE SumOf(_, _)
SumOf(rows, column) ==
    IF rows = <<>> THEN 0 ELSE Head(rows)[column] + SumOf(Tail(rows), column)

SumPoints(rows) == SumOf(rows, "gw_points")

Reverse(s) == [i \in 1..Len(s) |-> s[Len(s) + 1 - i]]

Head_n(rows, n) == SubSeq(rows, 1, IF Len(rows) < n THEN Len(rows) ELSE n)

IndexList(rows) == [i \in 1..Len(rows) |-> rows[i].idx]

RECURSIVE InsertDescending(_, _, _)
InsertDescending(r, sorted, by) ==
    IF sorted = <<>> THEN <<r>>
    ELSE IF Head(sorted)[by] >= r[by]
         THEN <<Head(sorted)>> \o InsertDescending(r, Tail(sorted), by)
         ELSE <<r>> \o sorted

RECURSIVE DescendingBy(_, _, _)
DescendingBy(rows, acc, by) ==
    IF rows = <<>> THEN acc
    ELSE DescendingBy(Tail(rows), InsertDescending(Head(rows), acc, by), by)

StableDescending(rows, acc) == DescendingBy(rows, acc, "gw_points")

(* DataFrame.sort_values("gw_points", ascending=False) with the default    *)
(* kind="quicksort", which is not a stable sort: the order of rows with    *)
(* equal points depends on the build of numpy.  sortKind is the build:     *)
(* "stable" keeps tied rows in their order, "unstable" reverses them.      *)
sort_values_by(rows, by) ==
    IF sortKind = "stable" THEN DescendingBy(rows, <<>>, by)
    ELSE DescendingBy(Reverse(rows), <<>>, by)

sort_values(rows) == sort_values_by(rows, "gw_points")

(* DataFrame.drop_duplicates(subset=["full_name"]): the first row of each  *)
(* name is kept.                                                           *)
drop_duplicates(rows) ==
    SelectSeq([i \in 1..Len(rows) |-> [row |-> rows[i], first |->
                  \A j \in 1..(i - 1) : rows[j].full_name # rows[i].full_name]],
              LAMBDA e : e.first)

Rows(marked) == [i \in 1..Len(marked) |-> marked[i].row]

ByPosition(rows, p) == SelectSeq(rows, LAMBDA r : r.position = p)

ByGameweek(rows, gw) == SelectSeq(rows, LAMBDA r : r.gw = gw)

NotIn(rows, labels) == SelectSeq(rows, LAMBDA r : r.idx \notin labels)

(* gw_df.loc[selected]: the rows with the labels of selected, in the order *)
(* of selected.                                                            *)
Loc(rows, selected) ==
    [k \in 1..Len(selected) |->
        rows[CHOOSE i \in 1..Len(rows) : rows[i].idx = selected[k]]]

MaxGw(rows) ==
    CHOOSE g \in {rows[i].gw : i \in 1..Len(rows)} :
        \A i \in 1..Len(rows) : rows[i].gw <= g

----------------------------------------------------------------------------
(* get_optimal_lineup(manager_df, gameweek)                                *)

Failure(errors) ==
    [optimal_points |-> 0, lineup |-> <<>>, bench |-> <<>>,
     valid |-> FALSE, errors |-> errors]

FloorErrors(gks, defs, mids, fwds) ==
       (IF Len(gks) < MinGK THEN <<"Not enough goalkeepers">> ELSE <<>>)
    \o (IF Len(defs) < MinDEF THEN <<"Not enough defenders">> ELSE <<>>)
    \o (IF Len(mids) < MinMID THEN <<"Not enough midfielders">> ELSE <<>>)
    \o (IF Len(fwds) < MinFWD THEN <<"Not enough forwards">> ELSE <<>>)

(* Mutant: only the top player of each position is mandatory, as the       *)
(* comment above the selections says.                                      *)
Mandatory_TopOfEach(gks, defs, mids, fwds) ==
       IndexList(Head_n(gks, 1)) \o IndexList(Head_n(defs, 1))
    \o IndexList(Head_n(mids, 1)) \o IndexList(Head_n(fwds, 1))

(* Mutant: the per-position frames are ordered ascending (ascending=False  *)
(* is missing), so the lowest of each position are mandatory.              *)
Mandatory_Ascending(gks, defs, mids, fwds) ==
       IndexList(Head_n(Reverse(gks), MinGK)) \o IndexList(Head_n(Reverse(defs), MinDEF))
    \o IndexList(Head_n(Reverse(mids), MinMID)) \o IndexList(Head_n(Reverse(fwds), MinFWD))

Mandatory(gks, defs, mids, fwds) ==
       IndexList(Head_n(gks, MinGK)) \o IndexList(Head_n(defs, MinDEF))
    \o IndexList(Head_n(mids, MinMID)) \o IndexList(Head_n(fwds, MinFWD))

(* Mutant: the remaining players are sorted ascending (the default of      *)
(* sort_values), so the three lowest are added.                            *)
Fill_Ascending(gw_df, mandatory) ==
    LET remaining_players ==
            Reverse(sort_values(NotIn(gw_df, {mandatory[i] : i \in 1..Len(mandatory)})))
    IN  IF Len(remaining_players) >= FillCount
        THEN IndexList(Head_n(remaining_players, FillCount))
        ELSE IndexList(remaining_players)

(* Mutant: the else branch is missing, and fewer than three remaining      *)
(* players are not added.                                                  *)
Fill_OnlyThree(gw_df, mandatory) ==
    LET remaining_players == sort_values(NotIn(gw_df, {mandatory[i] : i \in 1..Len(mandatory)}))
    IN  IF Len(remaining_players) >= FillCount
        THEN IndexList(Head_n(remaining_players, FillCount))
        ELSE <<>>

Fill(gw_df, mandatory) ==
    LET remaining_players == sort_values(NotIn(gw_df, {mandatory[i] : i \in 1..Len(mandatory)}))
    IN  IF Len(remaining_players) >= FillCount
        THEN IndexList(Head_n(remaining_players, FillCount))
        ELSE IndexList(remaining_players)

(* Mutant: the number of selected players is not verified, and no error    *)
(* is appended for a selection of fewer than 11.                           *)
SelectLineup_Unverified(gw_df, gks, defs, mids, fwds) ==
    LET mandatory == Mandatory(gks, defs, mids, fwds)
        selected == mandatory \o Fill(gw_df, mandatory)
        optimal_lineup == Loc(gw_df, selected)
    IN  [optimal_points |-> SumPoints(optimal_lineup),
         lineup |-> optimal_lineup,
         bench |-> NotIn(gw_df, {selected[i] : i \in 1..Len(selected)}),
         valid |-> TRUE,
         errors |-> <<>>]

(* Mutant: the bench is what the mandatory selections leave, so the three  *)
(* added players are on the bench as well.                                 *)
SelectLineup_BenchOfMandatory(gw_df, gks, defs, mids, fwds) ==
    LET mandatory == Mandatory(gks, defs, mids, fwds)
        selected == mandatory \o Fill(gw_df, mandatory)
        errors == IF Len(selected) < LineupSize /\ Len(gw_df) < LineupSize
                  THEN <<"Not enough players for a full 11-player lineup">>
                  ELSE <<>>
        optimal_lineup == Loc(gw_df, selected)
    IN  [optimal_points |-> SumPoints(optimal_lineup),
         lineup |-> optimal_lineup,
         bench |-> NotIn(gw_df, {mandatory[i] : i \in 1..Len(mandatory)}),
         valid |-> (Len(errors) = 0),
         errors |-> errors]

SelectLineup(gw_df, gks, defs, mids, fwds) ==
    LET mandatory == Mandatory(gks, defs, mids, fwds)
        selected == mandatory \o Fill(gw_df, mandatory)
        errors == IF Len(selected) < LineupSize /\ Len(gw_df) < LineupSize
                  THEN <<"Not enough players for a full 11-player lineup">>
                  ELSE <<>>
        optimal_lineup == Loc(gw_df, selected)
    IN  [optimal_points |-> SumPoints(optimal_lineup),
         lineup |-> optimal_lineup,
         bench |-> NotIn(gw_df, {selected[i] : i \in 1..Len(selected)}),
         valid |-> (Len(errors) = 0),
         errors |-> errors]

Deduplicate(rows) == Rows(drop_duplicates(sort_values(rows)))

NoData == Failure(<<"No data available">>)

(* Mutant: the check for an empty gameweek frame is missing, and the call  *)
(* falls through to the validation of the position floors.                 *)
NoGameweekData_Unchecked == Failure(FloorErrors(<<>>, <<>>, <<>>, <<>>))

NoGameweekData == Failure(<<"No data for this gameweek">>)

get_optimal_lineup(manager_df, gameweek) ==
    IF manager_df = <<>> THEN NoData
    ELSE
      LET picked == IF gameweek # NoGameweek
                    THEN ByGameweek(manager_df, gameweek)
                    ELSE ByGameweek(manager_df, MaxGw(manager_df))
      IN  IF picked = <<>> THEN NoGameweekData
          ELSE
            LET gw_df == Deduplicate(picked)
                gks == sort_values(ByPosition(gw_df, "GK"))
                defs == sort_values(ByPosition(gw_df, "DEF"))
                mids == sort_values(ByPosition(gw_df, "MID"))
                fwds == sort_values(ByPosition(gw_df, "FWD"))
                errors == FloorErrors(gks, defs, mids, fwds)
            IN  IF errors # <<>> THEN Failure(errors)
                ELSE SelectLineup(gw_df, gks, defs, mids, fwds)

get_manager_data(frame, manager_name) ==
    SelectSeq(frame, LAMBDA r : r.manager_team_name = manager_name)

----------------------------------------------------------------------------
(* get_all_optimal_lineups(manager_df)                                     *)

RECURSIVE Ascending(_)
Ascending(S) ==
    IF S = {} THEN <<>>
    ELSE LET least == CHOOSE x \in S : \A y \in S : x <= y
         IN  <<least>> \o Ascending(S \ {least})

RECURSIVE FirstSeen(_, _)
FirstSeen(rows, seen) ==
    IF rows = <<>> THEN <<>>
    ELSE IF Head(rows).gw \in seen THEN FirstSeen(Tail(rows), seen)
         ELSE <<Head(rows).gw>> \o FirstSeen(Tail(rows), seen \cup {Head(rows).gw})

(* Mutant: sorted() is missing, and the gameweeks are taken in the order   *)
(* of manager_df["gw"].unique(), their first appearance.                   *)
Gameweeks_Unsorted(rows) == FirstSeen(rows, {})

Gameweeks(rows) == Ascending({rows[i].gw : i \in 1..Len(rows)})

Starters(rows) == SelectSeq(rows, LAMBDA r : r.team_position <= StartingSlots)

(* A float quotient n / d * 100 is kept as the fraction num / den; a zero  *)
(* den is a division by zero.                                              *)
Percent(n, d) == [num |-> n * 100, den |-> d]

ZeroPercent == [num |-> 0, den |-> 1]

(* Mutant: the guard on actual_points is missing.                          *)
GainPct_Unguarded(optimal_points, actual_points) ==
    Percent(optimal_points - actual_points, actual_points)

GainPct(optimal_points, actual_points) ==
    IF actual_points > 0
    THEN Percent(optimal_points - actual_points, actual_points)
    ELSE ZeroPercent

(* Mutant: the filter on team_position is missing, and the bench counts.   *)
ActualPoints_WholeSquad(manager_df, gw) == SumPoints(ByGameweek(manager_df, gw))

ActualPoints(manager_df, gw) == SumPoints(Starters(ByGameweek(manager_df, gw)))

(* Mutant: the optimal points of a result that is not valid count as 0.    *)
PeriodRow_ValidOnly(manager_df, gw) ==
    LET actual_points == ActualPoints(manager_df, gw)
        optimal_result_gw == get_optimal_lineup(manager_df, gw)
        optimal_points == IF optimal_result_gw.valid
                          THEN optimal_result_gw.optimal_points ELSE 0
    IN  [gameweek |-> gw,
         actual_points |-> actual_points,
         optimal_points |-> optimal_points,
         difference |-> optimal_points - actual_points,
         potential_gain_pct |-> GainPct(optimal_points, actual_points)]

PeriodRow(manager_df, gw) ==
    LET actual_points == ActualPoints(manager_df, gw)
        optimal_points == get_optimal_lineup(manager_df, gw).optimal_points
    IN  [gameweek |-> gw,
         actual_points |-> actual_points,
         optimal_points |-> optimal_points,
         difference |-> optimal_points - actual_points,
         potential_gain_pct |-> GainPct(optimal_points, actual_points)]

get_all_optimal_lineups(manager_df) ==
    IF manager_df = <<>> THEN <<>>
    ELSE LET gws == Gameweeks(manager_df)
         IN  [k \in 1..Len(gws) |-> PeriodRow(manager_df, gws[k])]

----------------------------------------------------------------------------
(* get_league_optimized_lineups(df): core/data_utils.py defines it twice;  *)
(* the second definition replaces the first when the module is imported.   *)

(* Series.unique(): the values in order of first appearance.               *)
RECURSIVE Unique(_, _)
Unique(rows, seen) ==
    IF rows = <<>> THEN <<>>
    ELSE IF Head(rows).manager_team_name \in seen
         THEN Unique(Tail(rows), seen)
         ELSE <<Head(rows).manager_team_name>>
              \o Unique(Tail(rows), seen \cup {Head(rows).manager_team_name})

reset_index(rows) == [i \in 1..Len(rows) |-> [rows[i] EXCEPT !.idx = i]]

(* n / d rounded to the nearest integer, halves to even (Python round),    *)
(* for d > 0.                                                              *)
RoundDiv(n, d) ==
    LET q == n \div d
        twice == 2 * (n - q * d)
    IN  IF twice < d THEN q
        ELSE IF twice > d THEN q + 1
        ELSE IF q % 2 = 0 THEN q ELSE q + 1

(* round(gain / actual * 100, 1), kept in tenths.                          *)
RoundedPct(gain, actual_total) ==
    IF actual_total > 0
    THEN [num |-> RoundDiv(gain * 1000, actual_total), den |-> 10]
    ELSE ZeroPercent

FirstTeamRow(frame, team, i) ==
    LET gw_results == get_all_optimal_lineups(get_manager_data(frame, team))
        actual_total == SumOf(gw_results, "actual_points")
        optimal_total == SumOf(gw_results, "optimal_points")
    IN  [idx |-> i,
         manager_team_name |-> team,
         actual_points |-> actual_total,
         optimal_points |-> optimal_total,
         difference |-> optimal_total - actual_total,
         potential_gain_pct |-> RoundedPct(optimal_total - actual_total, actual_total)]

first_get_league_optimized_lineups(frame) ==
    IF frame = <<>> THEN <<>>
    ELSE LET teams == Unique(frame, {})
             results == [i \in 1..Len(teams) |-> FirstTeamRow(frame, teams[i], i)]
         IN  reset_index(sort_values_by(results, "actual_points"))

(* isinstance(optim_result, dict): get_all_optimal_lineups returns a       *)
(* DataFrame on every path, never a dict.                                  *)
IsDict(optim_result) == FALSE

TeamActual(team_df) == SumPoints(team_df)

(* Mutant: the season's optimal_points column is summed, as if the result  *)
(* of get_all_optimal_lineups carried a total.                             *)
TeamRow_Summed(frame, team, i) ==
    LET team_df == get_manager_data(frame, team)
        actual_points == TeamActual(team_df)
        optimal_points == SumOf(get_all_optimal_lineups(team_df), "optimal_points")
        potential_gain == optimal_points - actual_points
    IN  [idx |-> i,
         manager_team_name |-> team,
         actual_points |-> actual_points,
         optimal_points |-> optimal_points,
         difference |-> potential_gain,
         potential_gain_pct |-> IF actual_points > 0
                                THEN Percent(potential_gain, actual_points)
                                ELSE ZeroPercent]

TeamRow(frame, team, i) ==
    LET team_df == get_manager_data(frame, team)
        actual_points == TeamActual(team_df)
        optim_result == get_all_optimal_lineups(team_df)
        optimal_points == IF IsDict(optim_result)
                          THEN optim_result.total_optimal_points
                          ELSE actual_points
        potential_gain == optimal_points - actual_points
    IN  [idx |-> i,
         manager_team_name |-> team,
         actual_points |-> actual_points,
         optimal_points |-> optimal_points,
         difference |-> potential_gain,
         potential_gain_pct |-> IF actual_points > 0
                                THEN Percent(potential_gain, actual_points)
                                ELSE ZeroPercent]

(* A gw_points cell that holds text instead of a number is written as a    *)
(* row with the further field text (the number in gw_points is then of no  *)
(* account); team_df['gw_points'].sum() over such a cell and a number      *)
(* raises TypeError.                                                       *)
RaisesTypeError(team_df) ==
    \E i \in 1..Len(team_df) : "text" \in DOMAIN team_df[i]

(* The try statement encloses the whole loop: an exception raised for one  *)
(* team ends the call, which returns an empty DataFrame.                   *)
get_league_optimized_lineups(frame) ==
    IF frame = <<>> THEN <<>>
    ELSE LET teams == Unique(frame, {})
             league_results == [i \in 1..Len(teams) |-> TeamRow(frame, teams[i], i)]
         IN  IF \E i \in 1..Len(teams) : RaisesTypeError(get_manager_data(frame, teams[i]))
             THEN <<>>
             ELSE reset_index(sort_values_by(league_results, "actual_points"))

----------------------------------------------------------------------------
(* display_league_optimized_lineups(df) of core/visuals_utils.py: the      *)
(* league table shown to the user.                                         *)

get_starting_lineup(frame) == Starters(frame)

(* calculate_team_gw_points: one row per team that has starting players,   *)
(* Total being the sum of their points, ordered by Total descending.       *)
calculate_team_gw_points(starting_players) ==
    LET present == {starting_players[i].manager_team_name : i \in 1..Len(starting_players)}
        teams == SelectSeq(Teams, LAMBDA t : t \in present)
    IN  sort_values_by(
            [i \in 1..Len(teams) |->
                [idx |-> i, manager_team_name |-> teams[i],
                 Total |-> SumPoints(get_manager_data(starting_players, teams[i]))]],
            "Total")

TableRow(frame, entry, i) ==
    LET gw_results == get_all_optimal_lineups(get_manager_data(frame, entry.manager_team_name))
        actual_total == entry.Total
        optimal_total == IF gw_results = <<>> THEN actual_total
                         ELSE SumOf(gw_results, "optimal_points")
        difference == optimal_total - actual_total
    IN  [idx |-> i,
         manager_team_name |-> entry.manager_team_name,
         actual_points |-> actual_total,
         optimal_points |-> optimal_total,
         difference |-> difference,
         potential_gain_pct |-> RoundedPct(difference, actual_total)]

display_league_optimized_lineups(frame) ==
    IF frame = <<>> THEN <<>>
    ELSE LET team_gw_points == calculate_team_gw_points(get_starting_lineup(frame))
         IN  IF team_gw_points = <<>> THEN <<>>
             ELSE reset_index(sort_values_by(
                      [i \in 1..Len(team_gw_points) |-> TableRow(frame, team_gw_points[i], i)],
                      "actual_points"))

----------------------------------------------------------------------------
(* The caller-supplied data: one row per (manager, gameweek, player).      *)
(* A squad is written position by position; rows are laid out in the       *)
(* manager's declared order (team_position): the starters GK, DEF, MID,    *)
(* FWD, then the bench.                                                    *)

PointVals == {-LowPoints, HighPoints}

DescSeqs(n, V) == {s \in [1..n -> V] : \A i \in 1..(n - 1) : s[i] >= s[i + 1]}

Total(c) == c[1] + c[2] + c[3] + c[4]

Floors == <<MinGK, MinDEF, MinMID, MinFWD>>

GroupRows(team, g, p, pts, known, slot, base) ==
    [i \in 1..Len(pts) |->
        [idx |-> base + i, manager_team_name |-> team, gw |-> g,
         full_name |-> 100 * p + known + i, position |-> Positions[p],
         gw_points |-> pts[i], team_position |-> slot + i]]

Block(team, g, pts, known, slot, base) ==
       GroupRows(team, g, 1, pts[1], known[1], slot, base)
    \o GroupRows(team, g, 2, pts[2], known[2], slot + Len(pts[1]), base + Len(pts[1]))
    \o GroupRows(team, g, 3, pts[3], known[3], slot + Len(pts[1]) + Len(pts[2]),
                 base + Len(pts[1]) + Len(pts[2]))
    \o GroupRows(team, g, 4, pts[4], known[4],
                 slot + Len(pts[1]) + Len(pts[2]) + Len(pts[3]),
                 base + Len(pts[1]) + Len(pts[2]) + Len(pts[3]))

Lens(pts) == <<Len(pts[1]), Len(pts[2]), Len(pts[3]), Len(pts[4])>>

(* The rows of one manager's squad in one gameweek: start and bench give   *)
(* the points of the starters and of the bench of each position; the       *)
(* starters hold the slots from 1, the bench the slots after StartingSlots *)
(* (a squad written without a bench holds the slots 1..N); base is the     *)
(* number of rows that precede the squad in the frame.                     *)
SquadRows(team, g, start, bench, base) ==
       Block(team, g, start, <<0, 0, 0, 0>>, 0, base)
    \o Block(team, g, bench, Lens(start), StartingSlots, base + Total(Lens(start)))

PointsOf(c) ==
    {<<a, b, x, y>> : a \in DescSeqs(c[1], PointVals), b \in DescSeqs(c[2], PointVals),
                      x \in DescSeqs(c[3], PointVals), y \in DescSeqs(c[4], PointVals)}

NoPlayers == <<(<<>>), (<<>>), (<<>>), (<<>>)>>

(* Squads of any composition, one player short of a floor at the least.    *)
SquadCounts ==
    {c \in (0..SquadGK) \X (0..SquadDEF) \X (0..SquadMID) \X (0..SquadFWD) :
        /\ \A p \in 1..4 : c[p] >= Floors[p] - 1
        /\ Total(c) <= MaxSquad}

NoResult == Failure(<<>>)

NoCall == [op |-> "none", team |-> "", gw |-> NoGameweek]

(* No function of core/error_handler.py is running.                        *)
NoHandler == [op |-> "none"]

Idle ==
    /\ call = NoCall
    /\ optimal_result = NoResult
    /\ season = <<>>
    /\ league = <<>>
    /\ table = <<>>
    /\ handler = NoHandler

Init ==
    /\ \/ df = <<>>
       \/ \E c \in SquadCounts : \E pts \in PointsOf(c) :
             df = SquadRows(Teams[1], 1, pts, NoPlayers, 0)
    /\ sortKind \in {"stable", "unstable"}
    /\ Idle

CallOptimalLineup(t, g) ==
    /\ call = NoCall
    /\ call' = [op |-> "get_optimal_lineup", team |-> t, gw |-> g]
    /\ optimal_result' = get_optimal_lineup(get_manager_data(df, t), g)
    /\ season' = <<>>
    /\ league' = <<>>
    /\ table' = <<>>
    /\ UNCHANGED <<df, sortKind, handler>>

(* The result is handed to the caller; the functions keep nothing.        *)
Return ==
    /\ call # NoCall
    /\ call' = NoCall
    /\ optimal_result' = NoResult
    /\ season' = <<>>
    /\ league' = <<>>
    /\ table' = <<>>
    /\ UNCHANGED <<df, sortKind, handler>>

Next ==
    \/ \E g \in 0..MaxGameweek : CallOptimalLineup(Teams[1], g)
    \/ Return

Spec == Init /\ [][Next]_vars

----------------------------------------------------------------------------
(* One manager, one gameweek, every declared lineup: the squad meets the   *)
(* floors, and the manager starts any 11 of it (all of it when it has      *)
(* fewer than 11 players).                                                 *)

FullSquadCounts == {c \in SquadCounts : \A p \in 1..4 : c[p] >= Floors[p]}

Least(a, b) == IF a < b THEN a ELSE b

StartCounts(c) ==
    {s \in (0..c[1]) \X (0..c[2]) \X (0..c[3]) \X (0..c[4]) :
        Total(s) = Least(Total(c), StartingSlots)}

Minus(c, s) == <<c[1] - s[1], c[2] - s[2], c[3] - s[3], c[4] - s[4]>>

InitPeriod ==
    /\ \E c \in FullSquadCounts : \E s \in StartCounts(c) :
         \E start \in PointsOf(s), bench \in PointsOf(Minus(c, s)) :
            df = SquadRows(Teams[1], 1, start, bench, 0)
    /\ sortKind \in {"stable", "unstable"}
    /\ Idle

(* Mutant: the frame is sorted in place (sort_values(..., inplace=True) on  *)
(* the caller's frame) before the summaries are computed.                  *)
CallAllOptimalLineups_InPlace(t) ==
    /\ call = NoCall
    /\ call' = [op |-> "get_all_optimal_lineups", team |-> t, gw |-> NoGameweek]
    /\ df' = sort_values(df)
    /\ season' = get_all_optimal_lineups(get_manager_data(df', t))
    /\ optimal_result' = NoResult
    /\ league' = <<>>
    /\ table' = <<>>
    /\ UNCHANGED <<sortKind, handler>>

CallAllOptimalLineups(t) ==
    /\ call = NoCall
    /\ call' = [op |-> "get_all_optimal_lineups", team |-> t, gw |-> NoGameweek]
    /\ season' = get_all_optimal_lineups(get_manager_data(df, t))
    /\ optimal_result' = NoResult
    /\ league' = <<>>
    /\ table' = <<>>
    /\ UNCHANGED <<df, sortKind, handler>>

NextPeriod ==
    \/ CallAllOptimalLineups(Teams[1])
    \/ Return

SpecPeriod == InitPeriod /\ [][NextPeriod]_vars

----------------------------------------------------------------------------
(* A league: up to MaxBlocks squads, each of one manager in one gameweek.  *)
(* A squad of the league starts a full eleven with one goalkeeper on the   *)
(* bench, or lacks two defenders, or has eight players and no bench; its   *)
(* starters all score one value and its bench another.                     *)

LeagueShapes ==
    {[start |-> <<1, 4, 4, 2>>, bench |-> <<1, 0, 0, 0>>],
     [start |-> <<1, 2, 4, 2>>, bench |-> <<1, 0, 0, 0>>],
     [start |-> <<1, 3, 3, 1>>, bench |-> <<0, 0, 0, 0>>]}

Uniform(c, v) == [p \in 1..4 |-> [i \in 1..c[p] |-> v]]

BenchVals == {-LowPoints, HighPoints + LowPoints}

LeagueSquads ==
    {[start |-> Uniform(sh.start, v), bench |-> Uniform(sh.bench, w)] :
        sh \in LeagueShapes, v \in PointVals, w \in BenchVals}

(* A cell is a manager's gameweek, numbered manager by manager; the frame  *)
(* lists its cells in ascending or in descending order.                    *)
CellOf(k) == <<Teams[((k - 1) \div 2) + 1], ((k - 1) % 2) + 1>>

CellLists ==
    {cs \in UNION {[1..n -> 1..(2 * Len(Teams))] : n \in 0..MaxBlocks} :
        \/ \A i \in 1..(Len(cs) - 1) : cs[i] < cs[i + 1]
        \/ \A i \in 1..(Len(cs) - 1) : cs[i] > cs[i + 1]}

RECURSIVE Frame(_, _, _)
Frame(cs, squads, base) ==
    IF cs = <<>> THEN <<>>
    ELSE LET rows == SquadRows(CellOf(Head(cs))[1], CellOf(Head(cs))[2],
                               Head(squads).start, Head(squads).bench, base)
         IN  rows \o Frame(Tail(cs), Tail(squads), base + Len(rows))

InitLeague ==
    /\ \E cs \in CellLists : \E squads \in [1..Len(cs) -> LeagueSquads] :
         df = Frame(cs, squads, 0)
    /\ sortKind \in {"stable", "unstable"}
    /\ Idle

CallLeague ==
    /\ call = NoCall
    /\ call' = [op |-> "get_league_optimized_lineups", team |-> "", gw |-> NoGameweek]
    /\ league' = get_league_optimized_lineups(df)
    /\ optimal_result' = NoResult
    /\ season' = <<>>
    /\ table' = <<>>
    /\ UNCHANGED <<df, sortKind, handler>>

(* The definition at line 490, which the module no longer exports.         *)
CallFirstLeague ==
    /\ call = NoCall
    /\ call' = [op |-> "first get_league_optimized_lineups", team |-> "", gw |-> NoGameweek]
    /\ league' = first_get_league_optimized_lineups(df)
    /\ optimal_result' = NoResult
    /\ season' = <<>>
    /\ table' = <<>>
    /\ UNCHANGED <<df, sortKind, handler>>

CallDisplay ==
    /\ call = NoCall
    /\ call' = [op |-> "display_league_optimized_lineups", team |-> "", gw |-> NoGameweek]
    /\ table' = display_league_optimized_lineups(df)
    /\ optimal_result' = NoResult
    /\ season' = <<>>
    /\ league' = <<>>
    /\ UNCHANGED <<df, sortKind, handler>>

NextLeague ==
    \/ \E i \in 1..Len(Teams) : CallAllOptimalLineups(Teams[i])
    \/ CallLeague
    \/ CallFirstLeague
    \/ CallDisplay
    \/ Return

SpecLeague == InitLeague /\ [][NextLeague]_vars

----------------------------------------------------------------------------
(* What the claims speak of.                                               *)

Count(rows, p) == Len(ByPosition(rows, p))

Names(rows) == {rows[i].full_name : i \in 1..Len(rows)}

DistinctPlayers(rows) == Cardinality(Names(rows)) = Len(rows)

(* A legal starting eleven: 1 GK, 3..5 DEF, 3..5 MID, 1..3 FWD, 11 players. *)
LegalFormation(rows) ==
    /\ Len(rows) = LineupSize
    /\ DistinctPlayers(rows)
    /\ Count(rows, "GK") = MaxGKs
    /\ Count(rows, "DEF") \in MinDEF..MaxDEF
    /\ Count(rows, "MID") \in MinMID..MaxMID
    /\ Count(rows, "FWD") \in MinFWD..MaxFWD
    /\ Count(rows, "DEF") + Count(rows, "MID") + Count(rows, "FWD") = LineupSize - MaxGKs

MeetsFloors(rows) ==
    /\ Count(rows, "GK") >= MinGK
    /\ Count(rows, "DEF") >= MinDEF
    /\ Count(rows, "MID") >= MinMID
    /\ Count(rows, "FWD") >= MinFWD

(* The rows a call of get_optimal_lineup(manager_df, gameweek) is about.   *)
RequestedRows(t, g) ==
    LET manager_df == get_manager_data(df, t)
    IN  IF manager_df = <<>> THEN <<>>
        ELSE ByGameweek(manager_df, IF g = NoGameweek THEN MaxGw(manager_df) ELSE g)

Roster == RequestedRows(call.team, call.gw)

Optimised == call.op = "get_optimal_lineup"

(* The greatest total of a legal lineup drawn from rows, by enumeration of *)
(* the formations; -1000 when rows admits none.                            *)
TopSum(rows, p, k) == SumPoints(Head_n(StableDescending(ByPosition(rows, p), <<>>), k))

Formations ==
    {f \in (MinDEF..MaxDEF) \X (MinMID..MaxMID) \X (MinFWD..MaxFWD) :
        f[1] + f[2] + f[3] = LineupSize - MaxGKs}

Feasible(rows) ==
    {f \in Formations : /\ Count(rows, "GK") >= MaxGKs
                        /\ Count(rows, "DEF") >= f[1]
                        /\ Count(rows, "MID") >= f[2]
                        /\ Count(rows, "FWD") >= f[3]}

FormationSum(rows, f) ==
    TopSum(rows, "GK", MaxGKs) + TopSum(rows, "DEF", f[1])
    + TopSum(rows, "MID", f[2]) + TopSum(rows, "FWD", f[3])

LegalMax(rows) ==
    LET sums == {FormationSum(rows, f) : f \in Feasible(rows)}
    IN  CHOOSE x \in sums : \A y \in sums : y <= x

(* C1: for every roster with at least 11 distinct players that meets the   *)
(* position floors, the lineup get_optimal_lineup returns is a legal       *)
(* formation of exactly 11 players.                                        *)
C1_Legality ==
    (Optimised /\ DistinctPlayers(Roster) /\ Len(Roster) >= LineupSize /\ MeetsFloors(Roster))
        => LegalFormation(optimal_result.lineup)

(* C2: for every roster that admits a legal lineup, optimal_points is the  *)
(* maximum total over all legal lineups drawn from the roster.             *)
C2_ExactOptimum ==
    (Optimised /\ DistinctPlayers(Roster) /\ Feasible(Roster) # {})
        => optimal_result.optimal_points = LegalMax(Roster)

(* C4: a non-empty roster that fails a position floor or has fewer than 11 *)
(* players yields a failure outcome: no lineup, no optimal points, and     *)
(* errors naming the shortfall.                                            *)
C4_InsufficientRoster ==
    (Optimised /\ Roster # <<>> /\ ~(MeetsFloors(Roster) /\ Len(Roster) >= LineupSize))
        => /\ optimal_result.valid = FALSE
           /\ optimal_result.lineup = <<>>
           /\ optimal_result.optimal_points = 0
           /\ optimal_result.errors # <<>>

EmptyRosterErrors == {<<"No data available">>, <<"No data for this gameweek">>}

(* C5: a call whose manager and gameweek have no rows returns no lineup,   *)
(* valid = False and an empty-roster error; a roster that has rows never   *)
(* yields that error, so the outcome is distinct from an insufficient one. *)
C5_EmptyRoster ==
    Optimised =>
        /\ Roster = <<>> => /\ optimal_result.errors \in EmptyRosterErrors
                            /\ optimal_result.valid = FALSE
                            /\ optimal_result.lineup = <<>>
                            /\ optimal_result.bench = <<>>
                            /\ optimal_result.optimal_points = 0
        /\ Roster # <<>> => optimal_result.errors \notin EmptyRosterErrors

C5_Witness ==
    /\ Optimised
    /\ df # <<>>
    /\ Roster = <<>>
    /\ optimal_result.errors = <<"No data for this gameweek">>

----------------------------------------------------------------------------
(* Claims about the period summaries and the league tables.                *)

ManagerRows(t) == get_manager_data(df, t)

Declared(t, g) == Starters(ByGameweek(ManagerRows(t), g))

SeasonOf(t) == get_all_optimal_lineups(ManagerRows(t))

Summarised == call.op = "get_all_optimal_lineups"

(* C3: whenever the declared starters of a period form a legal lineup, the *)
(* period summary has optimal_points >= actual_points, a gain >= 0.        *)
C3_Dominance ==
    \A k \in 1..Len(season) :
        LegalFormation(Declared(call.team, season[k].gameweek))
            => /\ season[k].optimal_points >= season[k].actual_points
               /\ season[k].difference >= 0

C3_Witness ==
    /\ Summarised
    /\ \E k \in 1..Len(season) :
          /\ LegalFormation(Declared(call.team, season[k].gameweek))
          /\ season[k].difference > 0

(* C6: actual points are the points of the declared starters only          *)
(* (team_position <= 11), in the period summaries and in every league      *)
(* table.                                                                  *)
C6_StartersOnly ==
    /\ \A k \in 1..Len(season) :
          season[k].actual_points = SumPoints(Declared(call.team, season[k].gameweek))
    /\ \A k \in 1..Len(league) :
          league[k].actual_points = SumPoints(Starters(ManagerRows(league[k].manager_team_name)))
    /\ \A k \in 1..Len(table) :
          table[k].actual_points = SumPoints(Starters(ManagerRows(table[k].manager_team_name)))

(* C7: in every period summary the gain is optimal_points - actual_points, *)
(* the gain percentage is gain / actual_points * 100 when actual_points is *)
(* positive and exactly 0 otherwise, and nothing is divided by zero.       *)
C7_Gain ==
    \A k \in 1..Len(season) :
        LET r == season[k]
            pct == r.potential_gain_pct
        IN  /\ r.difference = r.optimal_points - r.actual_points
            /\ pct.den # 0
            /\ IF r.actual_points > 0
               THEN pct.num * r.actual_points = r.difference * 100 * pct.den
               ELSE pct.num = 0

C7_Witness ==
    /\ Summarised
    /\ \E k \in 1..Len(season) :
          /\ season[k].actual_points = 0
          /\ season[k].potential_gain_pct = ZeroPercent

(* C8: a period whose roster fails the minimum-position requirements has   *)
(* no row in the season summary.                                           *)
C8_SkippedPeriods ==
    \A k \in 1..Len(season) : MeetsFloors(ByGameweek(ManagerRows(call.team), season[k].gameweek))

(* C9: every row of get_league_optimized_lineups carries the sums of the   *)
(* manager's season summary: actual_points and optimal_points.             *)
C9_Aggregation ==
    call.op = "get_league_optimized_lineups" =>
        \A k \in 1..Len(league) :
            LET gw_results == SeasonOf(league[k].manager_team_name)
            IN  /\ league[k].actual_points = SumOf(gw_results, "actual_points")
                /\ league[k].optimal_points = SumOf(gw_results, "optimal_points")

(* The periods of a manager for which the optimiser produced a lineup.     *)
AvailableRows(t) ==
    SelectSeq(SeasonOf(t),
              LAMBDA r : get_optimal_lineup(ManagerRows(t), r.gameweek).lineup # <<>>)

SumsAvailable(rows) ==
    \A k \in 1..Len(rows) :
        LET available == AvailableRows(rows[k].manager_team_name)
        IN  /\ rows[k].actual_points = SumOf(available, "actual_points")
            /\ rows[k].optimal_points = SumOf(available, "optimal_points")

(* C10: a league total sums actual and optimal points over the available   *)
(* periods only: a period without a computed optimum adds to neither.      *)
C10_SymmetricExclusion ==
    /\ call.op = "first get_league_optimized_lineups" => SumsAvailable(league)
    /\ call.op = "display_league_optimized_lineups" => SumsAvailable(table)

----------------------------------------------------------------------------
(* Claims about the order of the league tables and of the season summary.  *)

(* The managers' identifiers ascend with their place in Teams.             *)
ManagerId(t) == CHOOSE i \in 1..Len(Teams) : Teams[i] = t

Ranked(rows) ==
    \A k \in 1..(Len(rows) - 1) :
        \/ rows[k].actual_points > rows[k + 1].actual_points
        \/ /\ rows[k].actual_points = rows[k + 1].actual_points
           /\ ManagerId(rows[k].manager_team_name) < ManagerId(rows[k + 1].manager_team_name)

(* C11: every league table is ordered by actual_points descending, and     *)
(* managers with equal actual_points appear in ascending manager order,    *)
(* whatever the order of the managers in the input.                        *)
C11_LeagueRanking == Ranked(league) /\ Ranked(table)

----------------------------------------------------------------------------
(* One manager's season: the gameweeks 1..MaxGameweek, some or all of      *)
(* them, in any order; the frame lists the squads one after the other, or  *)
(* takes its rows alternately from its two ends, so that the rows of the   *)
(* gameweeks are mixed.                                                    *)

GameweekLists ==
    {gs \in UNION {[1..n -> 1..MaxGameweek] : n \in 0..MaxGameweek} :
        \A i, j \in 1..Len(gs) : i # j => gs[i] # gs[j]}

RECURSIVE SeasonFrame(_, _, _, _)
SeasonFrame(team, gs, squads, base) ==
    IF gs = <<>> THEN <<>>
    ELSE LET rows == SquadRows(team, Head(gs), Head(squads).start, Head(squads).bench, base)
         IN  rows \o SeasonFrame(team, Tail(gs), Tail(squads), base + Len(rows))

FromBothEnds(rows) ==
    [i \in 1..Len(rows) |->
        IF i % 2 = 1 THEN rows[(i + 1) \div 2] ELSE rows[Len(rows) + 1 - (i \div 2)]]

InitSeason ==
    /\ \E gs \in GameweekLists : \E squads \in [1..Len(gs) -> LeagueSquads] :
         \/ df = SeasonFrame(Teams[1], gs, squads, 0)
         \/ df = FromBothEnds(SeasonFrame(Teams[1], gs, squads, 0))
    /\ sortKind \in {"stable", "unstable"}
    /\ Idle

NextSeason ==
    \/ CallAllOptimalLineups(Teams[1])
    \/ \E g \in 0..MaxGameweek : CallOptimalLineup(Teams[1], g)
    \/ CallLeague
    \/ Return

SpecSeason == InitSeason /\ [][NextSeason]_vars

(* C12: get_all_optimal_lineups returns one row for each distinct gameweek *)
(* of the manager's rows, in strictly ascending gameweek order, whatever   *)
(* the order of the rows in the input.                                     *)
C12_SeasonOrdering ==
    Summarised =>
        /\ {season[k].gameweek : k \in 1..Len(season)}
              = {ManagerRows(call.team)[i].gw : i \in 1..Len(ManagerRows(call.team))}
        /\ \A k \in 1..(Len(season) - 1) : season[k].gameweek < season[k + 1].gameweek

C12_Witness ==
    /\ Summarised
    /\ Len(season) = MaxGameweek
    /\ \E i, j \in 1..Len(df) : i < j /\ df[i].gw > df[j].gw
    /\ \E i, j, k \in 1..Len(df) : i < j /\ j < k /\ df[i].gw = df[k].gw /\ df[j].gw # df[i].gw

----------------------------------------------------------------------------
(* Rosters with a repeated name: one manager, one gameweek, a squad that   *)
(* meets the floors, all at one value, and at most one further record,     *)
(* first or last in the frame.  The further record carries the full_name   *)
(* of the first player of a position: it is a second record of that player *)
(* (the same player_id), or the record of another player of the same name  *)
(* who plays in the next position.                                         *)

WithPlayerId(rows) ==
    [i \in 1..Len(rows) |->
        [idx |-> rows[i].idx, manager_team_name |-> rows[i].manager_team_name,
         gw |-> rows[i].gw, full_name |-> rows[i].full_name,
         position |-> rows[i].position, gw_points |-> rows[i].gw_points,
         team_position |-> rows[i].team_position, player_id |-> rows[i].full_name]]

RecordKinds == {"second record", "namesake"}

FurtherRecord(squad, p, w, kind) ==
    LET original == ByPosition(squad, Positions[p])[1]
    IN  [idx |-> Len(squad) + 1, manager_team_name |-> original.manager_team_name,
         gw |-> original.gw, full_name |-> original.full_name,
         position |-> IF kind = "namesake" THEN Positions[(p % 4) + 1] ELSE original.position,
         gw_points |-> w,
         team_position |-> Len(squad) + 1,
         player_id |-> IF kind = "namesake" THEN original.player_id + 50
                       ELSE original.player_id]

InitRecords ==
    /\ \E c \in FullSquadCounts : \E v \in PointVals :
         LET squad == WithPlayerId(SquadRows(Teams[1], 1, Uniform(c, v), NoPlayers, 0))
         IN  \/ df = squad
             \/ \E p \in 1..4, w \in PointVals, kind \in RecordKinds :
                   \/ df = squad \o <<FurtherRecord(squad, p, w, kind)>>
                   \/ df = <<FurtherRecord(squad, p, w, kind)>> \o squad
    /\ sortKind \in {"stable", "unstable"}
    /\ Idle

NextRecords ==
    \/ \E g \in 0..MaxGameweek : CallOptimalLineup(Teams[1], g)
    \/ Return

SpecRecords == InitRecords /\ [][NextRecords]_vars

(* The records the result of get_optimal_lineup holds.                     *)
Kept == optimal_result.lineup \o optimal_result.bench

Labels(rows) == {rows[i].idx : i \in 1..Len(rows)}

(* C14: the records of a result hold each player identifier at most once;  *)
(* of several records of a player the one with the higher points is kept;  *)
(* no player disappears because another carries the same name; and the     *)
(* result tells the caller of every record it discarded.                   *)
C14_Duplicates ==
    (Optimised /\ optimal_result.lineup # <<>>) =>
        /\ \A i, j \in 1..Len(Kept) : i # j => Kept[i].player_id # Kept[j].player_id
        /\ \A i \in 1..Len(Roster) :
              \E k \in 1..Len(Kept) : /\ Kept[k].player_id = Roster[i].player_id
                                      /\ Kept[k].gw_points >= Roster[i].gw_points
        /\ \A i \in 1..Len(Roster) :
              Roster[i].idx \notin Labels(Kept) => optimal_result.errors # <<>>

----------------------------------------------------------------------------
(* C15: when the declared starters of a period (team_position <= 11) are   *)
(* not a legal formation, the period still has its row, actual_points is   *)
(* the sum over the declared rows, and the row carries a flag that marks   *)
(* the declared lineup as invalid.                                         *)
C15_InvalidDeclared ==
    Summarised =>
        \A g \in 1..MaxGameweek :
            (ByGameweek(ManagerRows(call.team), g) # <<>>
               /\ ~LegalFormation(Declared(call.team, g)))
            => \E k \in 1..Len(season) :
                  /\ season[k].gameweek = g
                  /\ season[k].actual_points = SumPoints(Declared(call.team, g))
                  /\ "declared_lineup_invalid" \in DOMAIN season[k]
                  /\ season[k].declared_lineup_invalid = TRUE

----------------------------------------------------------------------------
LeagueOps ==
    {"get_league_optimized_lineups", "first get_league_optimized_lineups",
     "display_league_optimized_lineups"}

LeagueTable == IF call.op = "display_league_optimized_lineups" THEN table ELSE league

Managers == {df[i].manager_team_name : i \in 1..Len(df)}

(* C16: every manager of the input has a row in the league table; the row  *)
(* of a manager without any available period has actual_points,            *)
(* optimal_points and difference 0 and carries an insufficient-data flag.  *)
C16_NoAvailablePeriod ==
    call.op \in LeagueOps =>
        \A t \in Managers :
            \E k \in 1..Len(LeagueTable) :
                /\ LeagueTable[k].manager_team_name = t
                /\ AvailableRows(t) = <<>> =>
                      /\ LeagueTable[k].actual_points = 0
                      /\ LeagueTable[k].optimal_points = 0
                      /\ LeagueTable[k].difference = 0
                      /\ "insufficient_data" \in DOMAIN LeagueTable[k]
                      /\ LeagueTable[k].insufficient_data = TRUE

----------------------------------------------------------------------------
(* A league of two managers, one gameweek each, in either order; the first *)
(* row of one manager may hold text in gw_points.                          *)

WithText(rows, team) ==
    LET first == CHOOSE i \in 1..Len(rows) :
                    /\ rows[i].manager_team_name = team
                    /\ \A j \in 1..(i - 1) : rows[j].manager_team_name # team
    IN  [i \in 1..Len(rows) |->
            IF i # first THEN rows[i]
            ELSE [idx |-> rows[i].idx, manager_team_name |-> rows[i].manager_team_name,
                  gw |-> rows[i].gw, full_name |-> rows[i].full_name,
                  position |-> rows[i].position, gw_points |-> 0,
                  team_position |-> rows[i].team_position, text |-> "n/a"]]

ManagerOrders == {<<1, 3>>, <<3, 1>>}

InitFailure ==
    /\ \E cs \in ManagerOrders : \E squads \in [1..2 -> LeagueSquads] :
         \/ df = Frame(cs, squads, 0)
         \/ \E i \in 1..Len(Teams) : df = WithText(Frame(cs, squads, 0), Teams[i])
    /\ sortKind \in {"stable", "unstable"}
    /\ Idle

NextFailure == CallLeague \/ Return

SpecFailure == InitFailure /\ [][NextFailure]_vars

(* C17: when the computation of one manager's row fails, the league table  *)
(* of get_league_optimized_lineups still has the row of every other        *)
(* manager, and the failing manager has a row of zero values that carries  *)
(* an insufficient-data flag.                                              *)
C17_FailureIsolation ==
    call.op = "get_league_optimized_lineups" =>
        \A t \in Managers :
            \E k \in 1..Len(league) :
                /\ league[k].manager_team_name = t
                /\ RaisesTypeError(ManagerRows(t)) =>
                      /\ league[k].actual_points = 0
                      /\ league[k].optimal_points = 0
                      /\ "insufficient_data" \in DOMAIN league[k]
                      /\ league[k].insufficient_data = TRUE

----------------------------------------------------------------------------
(* The roster of the concrete scenario: GK 10; DEF 8, 6, 4, 2; MID 9, 7,   *)
(* 5; FWD 11, 3, ten players, each known by his points.  The manager       *)
(* starts any of them and benches the others.                              *)

ScenarioPoints == <<(<<10>>), (<<8, 6, 4, 2>>), (<<9, 7, 5>>), (<<11, 3>>)>>

ScenarioPlayers == UNION {{ScenarioPoints[p][i] : i \in 1..Len(ScenarioPoints[p])} : p \in 1..4}

Started(benched) == [p \in 1..4 |-> SelectSeq(ScenarioPoints[p], LAMBDA x : x \notin benched)]

Benched(benched) == [p \in 1..4 |-> SelectSeq(ScenarioPoints[p], LAMBDA x : x \in benched)]

InitScenario ==
    /\ \E benched \in SUBSET ScenarioPlayers :
         df = SquadRows(Teams[1], 1, Started(benched), Benched(benched), 0)
    /\ sortKind \in {"stable", "unstable"}
    /\ Idle

NextScenario ==
    \/ \E g \in 0..MaxGameweek : CallOptimalLineup(Teams[1], g)
    \/ CallAllOptimalLineups(Teams[1])
    \/ Return

SpecScenario == InitScenario /\ [][NextScenario]_vars

PointsIn(rows) == {rows[i].gw_points : i \in 1..Len(rows)}

ScenarioCall == Optimised /\ call.gw \in {NoGameweek, 1}

GainScenario ==
    /\ Summarised
    /\ PointsIn(Declared(call.team, 1)) \in {ScenarioPlayers \ {11}, ScenarioPlayers \ {11, 2}}

----------------------------------------------------------------------------
(* C20: when the roster meets the floors and has exactly as many players   *)
(* of a position as the floor of that position (1 GK, 3 DEF, 3 MID or      *)
(* 1 FWD), every one of them is in the lineup get_optimal_lineup returns,  *)
(* whatever his points.                                                    *)
C20_ForcedSelection ==
    (Optimised /\ MeetsFloors(Roster)) =>
        \A p \in 1..4 :
            Count(Roster, Positions[p]) = Floors[p] =>
                \A i \in 1..Len(Roster) :
                    Roster[i].position = Positions[p]
                        => Roster[i].idx \in Labels(optimal_result.lineup)

C20_Witness ==
    /\ Optimised
    /\ MeetsFloors(Roster)
    /\ Count(Roster, "DEF") = MinDEF
    /\ \E i \in 1..Len(optimal_result.lineup), j \in 1..Len(optimal_result.bench) :
          /\ optimal_result.lineup[i].position = "DEF"
          /\ optimal_result.lineup[i].gw_points < 0
          /\ optimal_result.bench[j].gw_points > 0

----------------------------------------------------------------------------
----------------------------------------------------------------------------
(* C22: of two players of one position with equal points the one in the    *)
(* lower squad slot (team_position) is ranked first: the lineup never      *)
(* holds the higher slot and leaves out the lower.                         *)
C22_SlotTieBreak ==
    (Optimised /\ optimal_result.lineup # <<>>) =>
        \A i, j \in 1..Len(Roster) :
            (/\ Roster[i].position = Roster[j].position
             /\ Roster[i].gw_points = Roster[j].gw_points
             /\ Roster[i].team_position < Roster[j].team_position
             /\ Roster[j].idx \in Labels(optimal_result.lineup))
            => Roster[i].idx \in Labels(optimal_result.lineup)

----------------------------------------------------------------------------
(* core/error_handler.py: retry_on_failure(max_retries, delay).  The       *)
(* wrapped function returns, raises an exception that derives from         *)
(* Exception, or raises one that derives from BaseException only           *)
(* (SystemExit, KeyboardInterrupt, the stop and rerun signals of           *)
(* streamlit), which "except Exception" does not catch.  log lists the     *)
(* invocations, each by its outcome, and the calls of time.sleep; a result *)
(* names the invocation whose value or exception it is.                    *)

Outcomes == {"returns", "Exception", "BaseException"}

dataVars == <<df, sortKind, call, optimal_result, season, league, table>>

(* Mutant: the last attempt is taken to be attempt == max_retries.         *)
IsLastAttempt_OffByOne(attempt, max_retries) == attempt = max_retries

IsLastAttempt(attempt, max_retries) == attempt = max_retries - 1

Finished(h, kind, invocation) ==
    [h EXCEPT !.pc = "done", !.result = [kind |-> kind, of |-> invocation]]

(* The wrapper is called: the for loop starts, or ends at once when        *)
(* range(max_retries) is empty, and the wrapper returns None.              *)
RetryCall(max_retries, delay) ==
    /\ handler = NoHandler
    /\ LET h == [op |-> "retry_on_failure", pc |-> "try", max_retries |-> max_retries,
                 delay |-> delay, attempt |-> 0, log |-> <<>>,
                 result |-> [kind |-> "pending", of |-> 0]]
       IN  handler' = IF max_retries > 0 THEN h ELSE Finished(h, "None", 0)
    /\ UNCHANGED dataVars

(* One pass of the try statement: func is invoked.                         *)
RetryInvoke(outcome) ==
    /\ handler.op = "retry_on_failure"
    /\ handler.pc = "try"
    /\ LET h == [handler EXCEPT !.log = Append(@, outcome)]
           invocation == handler.attempt + 1
       IN  handler' =
             IF outcome = "returns" THEN Finished(h, "return", invocation)
             ELSE IF outcome = "BaseException" THEN Finished(h, "raise", invocation)
             ELSE IF IsLastAttempt(handler.attempt, handler.max_retries)
                  THEN Finished(h, "raise", invocation)
                  ELSE [h EXCEPT !.pc = "sleep"]
    /\ UNCHANGED dataVars

(* time.sleep(delay), then the next pass of the loop, if there is one.     *)
RetrySleep ==
    /\ handler.op = "retry_on_failure"
    /\ handler.pc = "sleep"
    /\ LET h == [handler EXCEPT !.log = Append(@, "sleep"), !.attempt = @ + 1]
       IN  handler' = IF h.attempt < h.max_retries THEN [h EXCEPT !.pc = "try"]
                      ELSE Finished(h, "None", 0)
    /\ UNCHANGED dataVars

(* The caller has the value or the exception.                              *)
HandlerReturn ==
    /\ handler # NoHandler
    /\ handler.pc = "done"
    /\ handler' = NoHandler
    /\ UNCHANGED dataVars

(* validate_dataframe(df, name, required_columns, min_rows).  The frame is *)
(* None or has a number of rows and a set of columns; required_columns is  *)
(* None (given = FALSE) or a list of column names.                         *)

Columns == {"gw", "gw_points"}

Frames ==
    {[none |-> TRUE, rows |-> 0, columns |-> {}]}
        \cup [none : {FALSE}, rows : 0..MaxRows, columns : SUBSET Columns]

ColumnLists ==
    {[given |-> FALSE, columns |-> {}]} \cup [given : {TRUE}, columns : SUBSET Columns]

(* DataFrame.empty: an axis of the frame has length 0.                     *)
Empty(frame) == frame.rows = 0 \/ frame.columns = {}

Raise(exception) == [kind |-> "raise", value |-> exception]

Value(v) == [kind |-> "return", value |-> v]

validate_dataframe(frame, required_columns, min_rows) ==
    IF frame.none \/ Empty(frame)
    THEN IF min_rows > 0 THEN Raise("DataValidationError") ELSE Value(TRUE)
    ELSE IF frame.rows < min_rows THEN Raise("DataValidationError")
    ELSE IF /\ required_columns.given
            /\ required_columns.columns # {}
            /\ required_columns.columns \ frame.columns # {}
         THEN Raise("DataValidationError")
         ELSE Value(TRUE)

CallValidate(frame, required_columns, min_rows) ==
    /\ handler = NoHandler
    /\ handler' = [op |-> "validate_dataframe", pc |-> "done", frame |-> frame,
                   required_columns |-> required_columns, min_rows |-> min_rows,
                   result |-> validate_dataframe(frame, required_columns, min_rows)]
    /\ UNCHANGED dataVars

(* safe_operation(func, context, default_return, show_error).  func        *)
(* returns value or raises; display_error logs and shows the message and   *)
(* returns.  displayed tells whether display_error was called.             *)

Values == {"None", "a", "b"}

(* Mutant: the exception is swallowed only when it is shown.               *)
safe_operation_ShownOnly(outcome, value, default_return, show_error) ==
    IF outcome = "returns" THEN [result |-> Value(value), displayed |-> FALSE]
    ELSE IF outcome = "BaseException" \/ ~show_error
         THEN [result |-> Raise(outcome), displayed |-> FALSE]
         ELSE [result |-> Value(default_return), displayed |-> TRUE]

safe_operation(outcome, value, default_return, show_error) ==
    IF outcome = "returns" THEN [result |-> Value(value), displayed |-> FALSE]
    ELSE IF outcome = "BaseException"
         THEN [result |-> Raise(outcome), displayed |-> FALSE]
         ELSE [result |-> Value(default_return), displayed |-> show_error]

CallSafeOperation(outcome, value, default_return, show_error) ==
    /\ handler = NoHandler
    /\ LET r == safe_operation(outcome, value, default_return, show_error)
       IN  handler' = [op |-> "safe_operation", pc |-> "done", outcome |-> outcome,
                       value |-> value, default_return |-> default_return,
                       show_error |-> show_error, displayed |-> r.displayed,
                       result |-> r.result]
    /\ UNCHANGED dataVars

InitHandler ==
    /\ df = <<>>
    /\ sortKind \in {"stable", "unstable"}
    /\ Idle

NextHandler ==
    \/ \E n \in 0..MaxRetries, d \in 0..MaxDelay : RetryCall(n, d)
    \/ \E o \in Outcomes : RetryInvoke(o)
    \/ RetrySleep
    \/ \E frame \in Frames, required_columns \in ColumnLists, min_rows \in 0..MaxRows :
          CallValidate(frame, required_columns, min_rows)
    \/ \E o \in Outcomes, value, default_return \in Values, show_error \in BOOLEAN :
          CallSafeOperation(o, value, default_return, show_error)
    \/ HandlerReturn

SpecHandler == InitHandler /\ [][NextHandler]_vars

Retrying == handler.op = "retry_on_failure" /\ handler.max_retries >= 1

Invocations(log) == SelectSeq(log, LAMBDA e : e # "sleep")

(* C23: with max_retries = n >= 1 the wrapped function is invoked at most  *)
(* n times; the wrapper returns the value of the first invocation that     *)
(* succeeds, which is the last invocation; when all n invocations raise,   *)
(* the wrapper raises the exception of the n-th; and time.sleep is called  *)
(* only after a failed attempt that another attempt follows.               *)
C23_Retry ==
    Retrying =>
        LET log == handler.log
            n == handler.max_retries
            invoked == Len(Invocations(log))
            done == handler.pc = "done"
        IN  /\ invoked <= n
            /\ \A i \in 1..Len(log) : log[i] = "returns" =>
                  /\ i = Len(log)
                  /\ done
                  /\ handler.result = [kind |-> "return", of |-> invoked]
            /\ (done /\ handler.result.kind = "return") => log[Len(log)] = "returns"
            /\ (done /\ invoked = n /\ \A i \in 1..Len(log) : log[i] # "returns")
                  => handler.result = [kind |-> "raise", of |-> n]
            /\ \A i \in 1..Len(log) : log[i] = "sleep" =>
                  /\ i > 1
                  /\ log[i - 1] = "Exception"
                  /\ Len(Invocations(SubSeq(log, 1, i))) < n
                  /\ i = Len(log) => handler.pc = "try"

C23_Witness ==
    /\ Retrying
    /\ handler.pc = "done"
    /\ handler.max_retries = MaxRetries
    /\ handler.log = [i \in 1..(2 * MaxRetries - 1) |-> IF i % 2 = 1 THEN "Exception" ELSE "sleep"]
    /\ handler.result = [kind |-> "raise", of |-> MaxRetries]

----------------------------------------------------------------------------
(* What the frame of a call of validate_dataframe has: None counts as a    *)
(* frame of no rows and no columns.                                        *)
HasStructure(h) ==
    /\ h.frame.rows >= h.min_rows
    /\ h.required_columns.columns \subseteq h.frame.columns

(* C24: validate_dataframe returns True only for a frame that has at least *)
(* min_rows rows and every column of required_columns, and raises          *)
(* DataValidationError in every other case.                                *)
C24_Validate ==
    handler.op = "validate_dataframe" =>
        /\ handler.result = Value(TRUE) => HasStructure(handler)
        /\ ~HasStructure(handler) => handler.result = Raise("DataValidationError")

----------------------------------------------------------------------------
(* C25: safe_operation never propagates an exception of the wrapped        *)
(* function: it returns the function's result when the function succeeds   *)
(* and default_return when it raises, whether show_error is set or not.    *)
C25_SafeOperation ==
    handler.op = "safe_operation" =>
        /\ handler.result.kind = "return"
        /\ handler.result.value =
              IF handler.outcome = "returns" THEN handler.value ELSE handler.default_return

(* C25 as the code has it: what is never propagated is an exception that   *)
(* derives from Exception; one that derives from BaseException only        *)
(* passes through the except clause.                                       *)
C25_SafeOperation_Amended ==
    (handler.op = "safe_operation" /\ handler.outcome # "BaseException") =>
        /\ handler.result.kind = "return"
        /\ handler.result.value =
              IF handler.outcome = "returns" THEN handler.value ELSE handler.default_return

C25_Witness ==
    /\ handler.op = "safe_operation"
    /\ handler.outcome = "Exception"
    /\ ~handler.show_error
    /\ handler.value # handler.default_return
    /\ handler.result = Value(handler.default_return)

----------------------------------------------------------------------------
----------------------------------------------------------------------------
(* C27: for a roster of at least 11 distinct players, a returned lineup    *)
(* that is a legal formation has the greatest total of all legal lineups   *)
(* of the roster; when the roster admits a legal lineup, optimal_points is *)
(* never below that greatest total, and differs from it only for a lineup  *)
(* that is not a legal formation.                                          *)
C27_LegalIsOptimal ==
    (Optimised /\ DistinctPlayers(Roster) /\ Len(Roster) >= LineupSize) =>
        /\ LegalFormation(optimal_result.lineup)
              => optimal_result.optimal_points = LegalMax(Roster)
        /\ (MeetsFloors(Roster) /\ Feasible(Roster) # {})
              => /\ optimal_result.optimal_points >= LegalMax(Roster)
                 /\ optimal_result.optimal_points # LegalMax(Roster)
                       => ~LegalFormation(optimal_result.lineup)

C27_Witness ==
    /\ Optimised
    /\ DistinctPlayers(Roster)
    /\ Len(Roster) > LineupSize
    /\ LegalFormation(optimal_result.lineup)
    /\ \E f \in Feasible(Roster) : FormationSum(Roster, f) < optimal_result.optimal_points
    /\ optimal_result.optimal_points = LegalMax(Roster)

----------------------------------------------------------------------------
(* The rows of the roster that the result's lineup names.                  *)
InLineup == SelectSeq(Roster, LAMBDA r : r.idx \in Labels(optimal_result.lineup))

(* C28: a result with valid = True has a lineup of exactly 11 distinct     *)
(* players of the roster, at least 1 GK, 3 DEF, 3 MID and 1 FWD among      *)
(* them, and optimal_points is the sum of the points of those 11.          *)
C28_ValidLineup ==
    (Optimised /\ optimal_result.valid) =>
        /\ Len(optimal_result.lineup) = LineupSize
        /\ Cardinality(Labels(optimal_result.lineup)) = LineupSize
        /\ DistinctPlayers(optimal_result.lineup)
        /\ Len(InLineup) = LineupSize
        /\ MeetsFloors(optimal_result.lineup)
        /\ optimal_result.optimal_points = SumPoints(InLineup)

C28_Witness ==
    /\ Optimised
    /\ optimal_result.valid
    /\ Len(Roster) > LineupSize
    /\ optimal_result.optimal_points = SumPoints(InLineup)
    /\ optimal_result.optimal_points > SumPoints(Roster)

----------------------------------------------------------------------------
(* The de-duplicated players of the roster: of the records of one          *)
(* full_name the one with the most points (the earliest label among equal  *)
(* ones, which has the same points as any other choice).                   *)
BestRecords(rows) ==
    SelectSeq(rows, LAMBDA r :
        \A i \in 1..Len(rows) :
            rows[i].full_name = r.full_name =>
                \/ rows[i].gw_points < r.gw_points
                \/ rows[i].gw_points = r.gw_points /\ rows[i].idx >= r.idx)

PassesFloors ==
    /\ Optimised
    /\ Roster # <<>>
    /\ \A k \in 1..Len(optimal_result.errors) :
          optimal_result.errors[k] \notin
              {"Not enough goalkeepers", "Not enough defenders",
               "Not enough midfielders", "Not enough forwards"}

(* C29: when the floor checks pass, lineup and bench share no record and   *)
(* no player, every player of the gameweek is in exactly one of them, as   *)
(* one record of the roster with the most points of that player, and the   *)
(* points of lineup and bench add up to the de-duplicated roster total.    *)
C29_Partition ==
    PassesFloors =>
        /\ Labels(optimal_result.lineup) \cap Labels(optimal_result.bench) = {}
        /\ Cardinality(Labels(Kept)) = Len(Kept)
        /\ DistinctPlayers(Kept)
        /\ Names(Kept) = Names(Roster)
        /\ \A k \in 1..Len(Kept) :
              /\ \E i \in 1..Len(Roster) : Roster[i] = Kept[k]
              /\ \A i \in 1..Len(Roster) :
                    Roster[i].full_name = Kept[k].full_name
                        => Roster[i].gw_points <= Kept[k].gw_points
        /\ optimal_result.optimal_points + SumPoints(optimal_result.bench)
              = SumPoints(BestRecords(Roster))

C29_Witness ==
    /\ PassesFloors
    /\ Len(BestRecords(Roster)) < Len(Roster)
    /\ SumPoints(BestRecords(Roster)) # SumPoints(Roster)
    /\ optimal_result.bench # <<>>
    /\ Len(optimal_result.lineup) = LineupSize
    /\ optimal_result.optimal_points + SumPoints(optimal_result.bench)
          = SumPoints(BestRecords(Roster))

----------------------------------------------------------------------------
(* A roster of distinct players that meets the four floors but has fewer   *)
(* than 11 players, and one that misses a floor.                           *)
ShortRoster(rows) ==
    DistinctPlayers(rows) /\ MeetsFloors(rows) /\ Len(rows) < LineupSize

MissesFloor(rows) == rows # <<>> /\ DistinctPlayers(rows) /\ ~MeetsFloors(rows)

GameweekRows(g) == ByGameweek(ManagerRows(call.team), g)

(* C30: for a roster that meets the floors with fewer than 11 players      *)
(* get_optimal_lineup returns valid = False, a lineup of every player, no  *)
(* bench, and optimal_points the sum of all their points; for a roster     *)
(* that misses a floor it returns optimal_points 0 and an empty lineup and *)
(* bench; and the row get_all_optimal_lineups has for the gameweek carries *)
(* that optimal_points in both cases.                                      *)
C30_ShortRoster ==
    /\ Optimised =>
          /\ ShortRoster(Roster) =>
                /\ optimal_result.valid = FALSE
                /\ optimal_result.lineup # <<>>
                /\ Labels(optimal_result.lineup) = Labels(Roster)
                /\ Len(optimal_result.lineup) = Len(Roster)
                /\ optimal_result.bench = <<>>
                /\ optimal_result.optimal_points = SumPoints(Roster)
          /\ MissesFloor(Roster) =>
                /\ optimal_result.valid = FALSE
                /\ optimal_result.optimal_points = 0
                /\ optimal_result.lineup = <<>>
                /\ optimal_result.bench = <<>>
    /\ Summarised =>
          \A k \in 1..Len(season) :
              LET rows == GameweekRows(season[k].gameweek)
              IN  /\ ShortRoster(rows) => season[k].optimal_points = SumPoints(rows)
                  /\ MissesFloor(rows) => season[k].optimal_points = 0

C30_Witness ==
    /\ Summarised
    /\ \E k, m \in 1..Len(season) :
          /\ ShortRoster(GameweekRows(season[k].gameweek))
          /\ season[k].optimal_points = SumPoints(GameweekRows(season[k].gameweek))
          /\ season[k].optimal_points # 0
          /\ MissesFloor(GameweekRows(season[m].gameweek))
          /\ SumPoints(GameweekRows(season[m].gameweek)) # 0
          /\ season[m].optimal_points = 0

====
